---- MODULE Spec2Model ----
(***************************************************************************)
(* Node feature vectors of scip-dagger (src/src/feat.c): the SCIP_FEAT     *)
(* record and its life cycle, the feature calculation for the node         *)
(* selector, and the LIBSVM export of one vector or of the difference of   *)
(* two vectors.                                                            *)
(*                                                                         *)
(* SCIP_Real (double) values are modelled as signed rationals              *)
(* <<sign, numerator, denominator>> with the IEEE 754 special values       *)
(* (signed zero, signed infinity, NaN); rounding of the binary format is   *)
(* not modelled.  C arrays are 0-based, sequences here are 1-based: slot k *)
(* of the C array is element k + 1 of vals.                                *)
(***************************************************************************)
EXTENDS Integers, Sequences, FiniteSets, TLC

VARIABLES feat, out, call, build, crashed, divzero, overflow

vars == <<feat, out, call, build, crashed, divzero, overflow>>

(***************************************************************************)
(* Bounds of the model.                                                    *)
(***************************************************************************)
\* SCIPfeatCreate is called with size NSlots .. NSlots + MaxExtraSlots
MaxExtraSlots == 1
\* nodes handed to SCIPcalcNodeselFeat have depth 1 .. MaxNodeDepth
MaxNodeDepth == 2

(***************************************************************************)
(* SCIP_Real arithmetic.                                                   *)
(***************************************************************************)
RECURSIVE GCD(_, _)
GCD(a, b) == IF b = 0 THEN a ELSE GCD(b, a % b)

NaN == <<1, 0, 0>>

Norm(s, n, d) ==
    IF d = 0 THEN (IF n = 0 THEN NaN ELSE <<s, 1, 0>>)
    ELSE IF n = 0 THEN <<s, 0, 1>>
    ELSE <<s, n \div GCD(n, d), d \div GCD(n, d)>>

\* int -> double conversion
IntToReal(k) == IF k < 0 THEN <<-1, -k, 1>> ELSE <<1, k, 1>>

\* double -> int conversion of a finite value: C truncates toward zero
RealToInt(x) == x[1] * (x[2] \div x[3])

IsNaN(x) == x[2] = 0 /\ x[3] = 0
IsInf(x) == x[2] # 0 /\ x[3] = 0
IsZero(x) == x[2] = 0 /\ x[3] # 0

FNeg(x) == IF IsNaN(x) THEN x ELSE <<-x[1], x[2], x[3]>>

FAbs(x) == <<1, x[2], x[3]>>

FDiv(x, y) ==
    IF IsNaN(x) \/ IsNaN(y) THEN NaN
    ELSE Norm(x[1] * y[1], x[2] * y[3], x[3] * y[2])

FMul(x, y) ==
    IF IsNaN(x) \/ IsNaN(y) THEN NaN
    ELSE Norm(x[1] * y[1], x[2] * y[2], x[3] * y[3])

FAdd(x, y) ==
    IF IsNaN(x) \/ IsNaN(y) THEN NaN
    ELSE IF IsInf(x) /\ IsInf(y) THEN (IF x[1] = y[1] THEN x ELSE NaN)
    ELSE IF IsInf(x) THEN x
    ELSE IF IsInf(y) THEN y
    ELSE LET num == x[1] * x[2] * y[3] + y[1] * y[2] * x[3]
             den == x[3] * y[3]
         IN  IF num = 0
             THEN (IF x[1] = -1 /\ y[1] = -1 THEN <<-1, 0, 1>> ELSE <<1, 0, 1>>)
             ELSE IF num < 0 THEN Norm(-1, -num, den)
             ELSE Norm(1, num, den)

FSub(x, y) == FAdd(x, FNeg(y))

\* the literals of feat.c
RealZero == IntToReal(0)
RealOne == IntToReal(1)
OneTenth == <<1, 1, 10>>
TwoTenths == <<1, 1, 5>>

\* C integer division truncates toward zero (b # 0)
CDiv(a, b) ==
    LET q == (IF a < 0 THEN -a ELSE a) \div (IF b < 0 THEN -b ELSE b)
    IN  IF (a < 0) = (b < 0) THEN q ELSE -q

\* printf's "%f": six decimals, sign kept (also of a zero), inf and nan by name
\* as <<text kind, sign, millionths>>
FmtReal(x) ==
    IF IsNaN(x) THEN <<"nan", 1, 0>>
    ELSE IF IsInf(x) THEN <<"inf", x[1], 0>>
    ELSE <<"fix", x[1], (2 * x[2] * (10 ^ 6) + x[3]) \div (2 * x[3])>>

(***************************************************************************)
(* Feature slots (the SCIP_FEATNODESEL_* indices of feat.h, C indices).   *)
(***************************************************************************)
SCIP_FEATNODESEL_LOWERBOUND == 0
SCIP_FEATNODESEL_ESTIMATE == 1
SCIP_FEATNODESEL_RELATIVEBOUND == 2
SCIP_FEATNODESEL_TYPE_SIBLING == 3
SCIP_FEATNODESEL_TYPE_CHILD == 4
SCIP_FEATNODESEL_TYPE_LEAF == 5
SCIP_FEATNODESEL_BRANCHVAR_OBJCONSTR == 6
SCIP_FEATNODESEL_BRANCHVAR_BOUNDLPDIFF == 7
SCIP_FEATNODESEL_BRANCHVAR_ROOTLPDIFF == 8
SCIP_FEATNODESEL_BRANCHVAR_PRIO_DOWN == 9
SCIP_FEATNODESEL_BRANCHVAR_PRIO_UP == 10
SCIP_FEATNODESEL_BRANCHVAR_PSEUDOCOST == 11
SCIP_FEATNODESEL_BRANCHVAR_INF == 12
\* number of slots SCIPcalcNodeselFeat addresses
SCIP_FEATNODESEL_SIZE == 13

\* the value of SCIP_BOUNDTYPE_LOWER in the enum SCIP_BoundType (values 0, 1)
SCIP_BOUNDTYPE_LOWER == 1

(***************************************************************************)
(* The SCIP_FEAT record.  live = FALSE is the NULL handle.                 *)
(***************************************************************************)
Feats == {"feat1", "feat2"}

NULL ==
    [live |-> FALSE, vals |-> <<>>, rootlpobj |-> RealZero,
     sumobjcoeff |-> RealZero, nconstrs |-> 0, maxdepth |-> 0, depth |-> 0,
     size |-> 0, boundtype |-> 0]

\* the sizes SCIPfeatCreate is called with: every slot of the schema fits
Sizes == SCIP_FEATNODESEL_SIZE .. (SCIP_FEATNODESEL_SIZE + MaxExtraSlots)

SCIPfeatCreate(size) ==
    [live |-> TRUE, vals |-> [i \in 1 .. size |-> RealZero],
     rootlpobj |-> RealZero, sumobjcoeff |-> RealZero, nconstrs |-> 0,
     maxdepth |-> 0, depth |-> 0, size |-> size, boundtype |-> 0]

SCIPfeatFree(ft) == NULL

SCIPfeatSetRootlpObj(ft, rootlpobj) == [ft EXCEPT !.rootlpobj = rootlpobj]

SCIPfeatSetSumObjCoeff(ft, sumobjcoeff) == [ft EXCEPT !.sumobjcoeff = sumobjcoeff]

SCIPfeatSetMaxDepth(ft, maxdepth) == [ft EXCEPT !.maxdepth = maxdepth]

SCIPfeatSetNConstrs(ft, nconstrs) == [ft EXCEPT !.nconstrs = nconstrs]

SCIPfeatGetVals(ft) == ft.vals

SCIPfeatGetSize(ft) == ft.size

\* vals[i] (C index i): beyond the allocated array the read yields garbage g
ReadSlot(ft, i, g) == IF i + 1 <= Len(ft.vals) THEN ft.vals[i + 1] ELSE g

(***************************************************************************)
(* What the build does where the C standard leaves the behaviour          *)
(* undefined.  Integer division by zero raises SIGFPE (x86), yields 0     *)
(* (aarch64) or -1 (RISC-V).  Floating-point division by zero yields the  *)
(* IEEE 754 value (infinity or NaN) on each of them.                      *)
(***************************************************************************)
Builds == [intdiv : {"SIGFPE", "zero", "allones"}]

\* the divisor feat->maxdepth / 10 of the offset
OffsetDivisor(ft) == CDiv(ft.maxdepth, 10)

OffsetTraps(ft) == OffsetDivisor(ft) = 0 /\ build.intdiv = "SIGFPE"

\* mutant: the depth bucket is not doubled, so the two bound types of
\* neighbouring buckets share a range
GetOffsetBucketNotDoubled(ft) ==
    LET q == IF OffsetDivisor(ft) = 0
             THEN (IF build.intdiv = "zero" THEN 0 ELSE -1)
             ELSE CDiv(ft.depth, OffsetDivisor(ft))
    IN  ft.size * q + (ft.size * ft.boundtype)

SCIPfeatGetOffset(ft) ==
    LET q == IF OffsetDivisor(ft) = 0
             THEN (IF build.intdiv = "zero" THEN 0 ELSE -1)
             ELSE CDiv(ft.depth, OffsetDivisor(ft))
    IN  (ft.size * 2) * q + (ft.size * ft.boundtype)

(***************************************************************************)
(* SCIPfeatCopy(feat, sourcefeat): reads feat, writes sourcefeat.          *)
(***************************************************************************)
\* the loop runs to feat->size: past the end of either array it is a heap overflow
CopyOverflows(ft, src) == ft.size > Len(src.vals) \/ ft.size > Len(ft.vals)

\* sourcefeat after the call (stores past the end of its array are not in it)
SCIPfeatCopy(ft, src, g) ==
    [src EXCEPT !.maxdepth = ft.maxdepth,
                !.depth = ft.depth,
                !.size = ft.size,
                !.boundtype = ft.boundtype,
                !.rootlpobj = ft.rootlpobj,
                !.sumobjcoeff = ft.sumobjcoeff,
                !.nconstrs = ft.nconstrs,
                !.vals = [i \in 1 .. Len(src.vals) |->
                            IF i <= ft.size THEN ReadSlot(ft, i - 1, g)
                            ELSE src.vals[i]]]

(***************************************************************************)
(* SCIPcalcNodeselFeat.  A node input carries what the function reads from *)
(* the node, its first bound change, the branching variable and its        *)
(* column, and the solver (SCIP's accessors are outside this repository).  *)
(***************************************************************************)
NodeTypes == {"SIBLING", "CHILD", "LEAF", "FOCUSNODE"}

\* the asserts of lines 110-117
CalcPrecondition(ft, node) ==
    /\ node.depth # 0
    /\ ft.live
    /\ ft.maxdepth # 0
    /\ node.boundchgtype = "BRANCHING"

\* lines 122-124
RootLowerbound(node) ==
    IF IsZero(node.rootlowerbound) THEN OneTenth ELSE node.rootlowerbound

\* lines 126-128
Cutoffbound(node) ==
    IF node.nsols = 0
    THEN FAdd(node.lowerbound,
              FMul(TwoTenths, FSub(node.cutoffbound, node.lowerbound)))
    ELSE node.cutoffbound

\* lines 136-138: varcolsize is an int, the assignment of 0.1 converts to int
Varcolsize(node) ==
    IF node.varcolnnonz = 0 THEN RealToInt(OneTenth) ELSE node.varcolnnonz

\* line 141: SCIPvarGetSol(branchvar, haslp)
Varsol(node) == IF node.haslp THEN node.varlpsol ELSE node.varpseudosol

\* the divisions of lines 164 and 173 whose divisor is zero for this node
CalcDivZero(node) ==
    (IF Varcolsize(node) = 0 THEN {"objconstr"} ELSE {})
    \cup (IF IsZero(FAbs(node.varobj)) THEN {"pseudocost"} ELSE {})

Store(vals, slot, v) == [vals EXCEPT ![slot + 1] = v]

\* the vector after the call (IEEE 754 result of a division by zero)
SCIPcalcNodeselFeat(ft, node) ==
    LET nodelowerbound == node.nodelowerbound
        rootlowerbound == RootLowerbound(node)
        lowerbound == node.lowerbound
        cutoffbound == Cutoffbound(node)
        branchbound == node.newbound
        varobj == node.varobj
        varcolsize == Varcolsize(node)
        varsol == Varsol(node)
        varrootsol == node.varrootsol
        boundtype == node.boundtype
        v1 == Store(Store(ft.vals,
                  SCIP_FEATNODESEL_LOWERBOUND, FDiv(nodelowerbound, rootlowerbound)),
                  SCIP_FEATNODESEL_ESTIMATE, FDiv(node.estimate, rootlowerbound))
        v2 == IF ~IsZero(FSub(cutoffbound, lowerbound))
              THEN Store(v1, SCIP_FEATNODESEL_RELATIVEBOUND,
                         FDiv(FSub(nodelowerbound, lowerbound),
                              FSub(cutoffbound, lowerbound)))
              ELSE v1
        v3 == IF node.type = "SIBLING"
              THEN Store(v2, SCIP_FEATNODESEL_TYPE_SIBLING, RealOne)
              ELSE IF node.type = "CHILD"
              THEN Store(v2, SCIP_FEATNODESEL_TYPE_CHILD, RealOne)
              ELSE IF node.type = "LEAF"
              THEN Store(v2, SCIP_FEATNODESEL_TYPE_LEAF, RealOne)
              ELSE v2
        v4 == Store(Store(Store(v3,
                  SCIP_FEATNODESEL_BRANCHVAR_OBJCONSTR,
                      FDiv(varobj, IntToReal(varcolsize))),
                  SCIP_FEATNODESEL_BRANCHVAR_BOUNDLPDIFF, FSub(branchbound, varsol)),
                  SCIP_FEATNODESEL_BRANCHVAR_ROOTLPDIFF, FSub(varrootsol, varsol))
        v5 == IF node.branchdir = "DOWNWARDS"
              THEN Store(v4, SCIP_FEATNODESEL_BRANCHVAR_PRIO_DOWN, RealOne)
              ELSE IF node.branchdir = "UPWARDS"
              THEN Store(v4, SCIP_FEATNODESEL_BRANCHVAR_PRIO_UP, RealOne)
              ELSE v4
        v6 == Store(v5, SCIP_FEATNODESEL_BRANCHVAR_PSEUDOCOST,
                    FDiv(node.pseudocost, FAbs(varobj)))
        v7 == Store(v6, SCIP_FEATNODESEL_BRANCHVAR_INF,
                    IF boundtype = SCIP_BOUNDTYPE_LOWER
                    THEN FDiv(node.avginfup, IntToReal(ft.maxdepth))
                    ELSE FDiv(node.avginfdown, IntToReal(ft.maxdepth)))
    IN  [ft EXCEPT !.depth = node.depth, !.boundtype = boundtype, !.vals = v7]

(***************************************************************************)
(* LIBSVM export.  A line is the label and the "index:value " pairs in the *)
(* order written; "%d" prints an int as it is.                             *)
(***************************************************************************)
\* a loop to feat->size reads past the end of an array that is shorter
ReadsPastEnd(ft) == ft.size > Len(ft.vals)

SCIPfeatLIBSVMPrint(ft, label, g) ==
    LET size == SCIPfeatGetSize(ft)
        offset == SCIPfeatGetOffset(ft)
    IN  [label |-> label,
         pairs |-> [k \in 1 .. size |->
                      <<(k - 1) + offset + 1, FmtReal(ReadSlot(ft, k - 1, g))>>]]

\* mutant: the block of feat1 is always written first
DiffPrintFeat1First(feat1, feat2, label, negate, g) ==
    LET f1 == IF negate THEN feat2 ELSE feat1
        f2 == IF negate THEN feat1 ELSE feat2
        lbl == IF negate THEN -1 * label ELSE label
        size == SCIPfeatGetSize(f1)
        offset1 == SCIPfeatGetOffset(f1)
        offset2 == SCIPfeatGetOffset(f2)
        block1 == [k \in 1 .. size |->
                     <<(k - 1) + offset1 + 1, FmtReal(ReadSlot(f1, k - 1, g))>>]
        block2 == [k \in 1 .. size |->
                     <<(k - 1) + offset2 + 1, FmtReal(FNeg(ReadSlot(f2, k - 1, g)))>>]
    IN  [label |-> lbl,
         pairs |-> IF offset1 = offset2
                   THEN [k \in 1 .. size |->
                           <<(k - 1) + offset1 + 1,
                             FmtReal(FSub(ReadSlot(f1, k - 1, g),
                                          ReadSlot(f2, k - 1, g)))>>]
                   ELSE block1 \o block2]

\* mutant: negate swaps the vectors and keeps the label
DiffPrintLabelKept(feat1, feat2, label, negate, g) ==
    LET f1 == IF negate THEN feat2 ELSE feat1
        f2 == IF negate THEN feat1 ELSE feat2
        lbl == label
        size == SCIPfeatGetSize(f1)
        offset1 == SCIPfeatGetOffset(f1)
        offset2 == SCIPfeatGetOffset(f2)
        block1 == [k \in 1 .. size |->
                     <<(k - 1) + offset1 + 1, FmtReal(ReadSlot(f1, k - 1, g))>>]
        block2 == [k \in 1 .. size |->
                     <<(k - 1) + offset2 + 1, FmtReal(FNeg(ReadSlot(f2, k - 1, g)))>>]
    IN  [label |-> lbl,
         pairs |-> IF offset1 = offset2
                   THEN [k \in 1 .. size |->
                           <<(k - 1) + offset1 + 1,
                             FmtReal(FSub(ReadSlot(f1, k - 1, g),
                                          ReadSlot(f2, k - 1, g)))>>]
                   ELSE IF offset1 < offset2 THEN block1 \o block2
                   ELSE block2 \o block1]

\* mutant: with equal offsets the values of feat1 are written, not the difference
DiffPrintMergedFeat1(feat1, feat2, label, negate, g) ==
    LET f1 == IF negate THEN feat2 ELSE feat1
        f2 == IF negate THEN feat1 ELSE feat2
        lbl == IF negate THEN -1 * label ELSE label
        size == SCIPfeatGetSize(f1)
        offset1 == SCIPfeatGetOffset(f1)
        offset2 == SCIPfeatGetOffset(f2)
        block1 == [k \in 1 .. size |->
                     <<(k - 1) + offset1 + 1, FmtReal(ReadSlot(f1, k - 1, g))>>]
        block2 == [k \in 1 .. size |->
                     <<(k - 1) + offset2 + 1, FmtReal(FNeg(ReadSlot(f2, k - 1, g)))>>]
    IN  [label |-> lbl,
         pairs |-> IF offset1 = offset2
                   THEN [k \in 1 .. size |->
                           <<(k - 1) + offset1 + 1,
                             FmtReal(ReadSlot(f1, k - 1, g))>>]
                   ELSE IF offset1 < offset2 THEN block1 \o block2
                   ELSE block2 \o block1]

SCIPfeatDiffLIBSVMPrint(feat1, feat2, label, negate, g) ==
    LET f1 == IF negate THEN feat2 ELSE feat1
        f2 == IF negate THEN feat1 ELSE feat2
        lbl == IF negate THEN -1 * label ELSE label
        size == SCIPfeatGetSize(f1)
        offset1 == SCIPfeatGetOffset(f1)
        offset2 == SCIPfeatGetOffset(f2)
        block1 == [k \in 1 .. size |->
                     <<(k - 1) + offset1 + 1, FmtReal(ReadSlot(f1, k - 1, g))>>]
        block2 == [k \in 1 .. size |->
                     <<(k - 1) + offset2 + 1, FmtReal(FNeg(ReadSlot(f2, k - 1, g)))>>]
    IN  [label |-> lbl,
         pairs |-> IF offset1 = offset2
                   THEN [k \in 1 .. size |->
                           <<(k - 1) + offset1 + 1,
                             FmtReal(FSub(ReadSlot(f1, k - 1, g),
                                          ReadSlot(f2, k - 1, g)))>>]
                   ELSE IF offset1 < offset2 THEN block1 \o block2
                   ELSE block2 \o block1]

(***************************************************************************)
(* Inputs of the calls.                                                    *)
(***************************************************************************)
Labels == {-1, 1}

\* what a read past the end of an array can find
Garbage == {RealZero, RealOne}

\* values handed to the setters
MaxDepths == {5, 10, 20}
MaxDepthsLife == {10}
MaxDepthsCalc == {5, 10}
RootlpObjs == {IntToReal(7)}
SumObjCoeffs == {IntToReal(5)}
NConstrs == {3}

\* a node at the given depth; the other inputs are those of one solver state
Node(type, depth, boundtype, varobj, nnonz, rootlb, nsols, dir) ==
    [type |-> type, depth |-> depth, boundchgtype |-> "BRANCHING",
     boundtype |-> boundtype, newbound |-> IntToReal(1), branchdir |-> dir,
     varobj |-> varobj, varcolnnonz |-> nnonz,
     haslp |-> TRUE, varlpsol |-> <<1, 1, 2>>, varpseudosol |-> RealZero,
     varrootsol |-> <<1, 3, 2>>, pseudocost |-> IntToReal(2),
     avginfup |-> IntToReal(4), avginfdown |-> IntToReal(2),
     nodelowerbound |-> IntToReal(3), estimate |-> IntToReal(4),
     rootlowerbound |-> rootlb, lowerbound |-> IntToReal(1),
     cutoffbound |-> IntToReal(11), nsols |-> nsols]

BoundTypes == {0, 1}

\* life cycle: two node types, one depth, regular numbers
NodesLife ==
    {Node(t, 1, 0, IntToReal(2), 2, IntToReal(2), 1, "UPWARDS") :
        t \in {"SIBLING", "CHILD"}}

\* calculation: every node type, degenerate and regular numbers
NodesCalc ==
    {Node(t, 1, 1, o, n, r, 0, "DOWNWARDS") :
        t \in NodeTypes, o \in {RealZero, IntToReal(-2)}, n \in {0, 2},
        r \in {RealZero, IntToReal(2)}}

\* export: depths over several depth buckets, both bound types
NodesExport ==
    {Node("CHILD", d, b, IntToReal(2), 2, IntToReal(2), 1, "AUTO") :
        d \in 1 .. MaxNodeDepth, b \in BoundTypes}

(***************************************************************************)
(* State.  feat: the two handles; out: what the last call appended to the *)
(* file (one line after an export, nothing otherwise); call: the last     *)
(* call if it was an export; build: see Builds; crashed: the process was  *)
(* killed by a signal; divzero: the divisions the last call executed with *)
(* a zero divisor; overflow: the last call accessed a vals array past its *)
(* end.                                                                    *)
(***************************************************************************)
NoCall == [op |-> "none", f1 |-> "feat1", f2 |-> "feat1", label |-> 0, negate |-> FALSE]

Init ==
    /\ feat = [f \in Feats |-> NULL]
    /\ out = <<>>
    /\ call = NoCall
    /\ build \in Builds
    /\ crashed = FALSE
    /\ divzero = {}
    /\ overflow = FALSE

Create(f, size) ==
    /\ ~crashed
    /\ ~feat[f].live
    /\ feat' = [feat EXCEPT ![f] = SCIPfeatCreate(size)]
    /\ out' = <<>> /\ call' = NoCall
    /\ divzero' = {} /\ overflow' = FALSE
    /\ UNCHANGED <<build, crashed>>

Free(f) ==
    /\ ~crashed
    /\ feat[f].live
    /\ feat' = [feat EXCEPT ![f] = SCIPfeatFree(feat[f])]
    /\ out' = <<>> /\ call' = NoCall
    /\ divzero' = {} /\ overflow' = FALSE
    /\ UNCHANGED <<build, crashed>>

SetRootlpObj(f, v) ==
    /\ ~crashed
    /\ feat[f].live
    /\ feat' = [feat EXCEPT ![f] = SCIPfeatSetRootlpObj(feat[f], v)]
    /\ out' = <<>> /\ call' = NoCall
    /\ divzero' = {} /\ overflow' = FALSE
    /\ UNCHANGED <<build, crashed>>

SetSumObjCoeff(f, v) ==
    /\ ~crashed
    /\ feat[f].live
    /\ feat' = [feat EXCEPT ![f] = SCIPfeatSetSumObjCoeff(feat[f], v)]
    /\ out' = <<>> /\ call' = NoCall
    /\ divzero' = {} /\ overflow' = FALSE
    /\ UNCHANGED <<build, crashed>>

SetMaxDepth(f, v) ==
    /\ ~crashed
    /\ feat[f].live
    /\ feat' = [feat EXCEPT ![f] = SCIPfeatSetMaxDepth(feat[f], v)]
    /\ out' = <<>> /\ call' = NoCall
    /\ divzero' = {} /\ overflow' = FALSE
    /\ UNCHANGED <<build, crashed>>

SetNConstrs(f, v) ==
    /\ ~crashed
    /\ feat[f].live
    /\ feat' = [feat EXCEPT ![f] = SCIPfeatSetNConstrs(feat[f], v)]
    /\ out' = <<>> /\ call' = NoCall
    /\ divzero' = {} /\ overflow' = FALSE
    /\ UNCHANGED <<build, crashed>>

\* SCIPfeatCopy(feat[f], feat[s]); a heap overflow aborts the process or
\* lands in memory that belongs to no vector
Copy(f, s) ==
    /\ ~crashed
    /\ feat[f].live
    /\ feat[s].live
    /\ overflow' = CopyOverflows(feat[f], feat[s])
    /\ IF CopyOverflows(feat[f], feat[s])
       THEN \/ crashed' = TRUE /\ UNCHANGED feat
            \/ /\ \E g \in Garbage :
                     feat' = [feat EXCEPT ![s] = SCIPfeatCopy(feat[f], feat[s], g)]
               /\ UNCHANGED crashed
       ELSE /\ feat' = [feat EXCEPT ![s] = SCIPfeatCopy(feat[f], feat[s], RealZero)]
            /\ UNCHANGED crashed
    /\ out' = <<>> /\ call' = NoCall
    /\ divzero' = {}
    /\ UNCHANGED build

\* SCIPcalcNodeselFeat(scip, node, feat[f])
Calculate(f, node) ==
    /\ ~crashed
    /\ CalcPrecondition(feat[f], node)
    /\ divzero' = CalcDivZero(node)
    /\ feat' = [feat EXCEPT ![f] = SCIPcalcNodeselFeat(feat[f], node)]
    /\ out' = <<>> /\ call' = NoCall
    /\ overflow' = FALSE
    /\ UNCHANGED <<build, crashed>>

\* the common part of the two export calls: the offsets are computed first
\* (zerodiv: one of them divides by zero), then the line is written; line[g]
\* is the line when a read past the end of an array finds g
Emit(zerodiv, traps, pastend, line) ==
    /\ divzero' = (IF zerodiv THEN {"offset"} ELSE {})
    /\ overflow' = (~traps /\ pastend)
    /\ IF traps
       THEN crashed' = TRUE /\ out' = <<>>
       ELSE IF pastend
       THEN \/ crashed' = TRUE /\ out' = <<>>
            \/ (\E g \in Garbage : out' = <<line[g]>>) /\ UNCHANGED crashed
       ELSE out' = <<line[RealZero]>> /\ UNCHANGED crashed
    /\ UNCHANGED <<feat, build>>

WriteSingle(f, label) ==
    /\ ~crashed
    /\ feat[f].live
    /\ feat[f].depth # 0
    /\ call' = [op |-> "single", f1 |-> f, f2 |-> f, label |-> label, negate |-> FALSE]
    /\ Emit(OffsetDivisor(feat[f]) = 0, OffsetTraps(feat[f]),
            ReadsPastEnd(feat[f]),
            [g \in Garbage |-> SCIPfeatLIBSVMPrint(feat[f], label, g)])

WriteDiff(a, b, label, negate) ==
    /\ ~crashed
    /\ feat[a].live
    /\ feat[b].live
    /\ feat[a].depth # 0
    /\ feat[b].depth # 0
    /\ feat[a].size = feat[b].size
    /\ call' = [op |-> "diff", f1 |-> a, f2 |-> b, label |-> label, negate |-> negate]
    /\ Emit(OffsetDivisor(feat[a]) = 0 \/ OffsetDivisor(feat[b]) = 0,
            OffsetTraps(feat[a]) \/ OffsetTraps(feat[b]),
            ReadsPastEnd(feat[a]) \/ ReadsPastEnd(feat[b]),
            [g \in Garbage |->
               SCIPfeatDiffLIBSVMPrint(feat[a], feat[b], label, negate, g)])

(***************************************************************************)
(* Spec: the life cycle of two vectors (create, set, calculate, copy,     *)
(* free).                                                                  *)
(***************************************************************************)
Next ==
    \/ \E f \in Feats, size \in Sizes : Create(f, size)
    \/ \E f \in Feats : Free(f)
    \/ \E f \in Feats, v \in RootlpObjs : SetRootlpObj(f, v)
    \/ \E f \in Feats, v \in SumObjCoeffs : SetSumObjCoeff(f, v)
    \/ \E f \in Feats, v \in MaxDepthsLife : SetMaxDepth(f, v)
    \/ \E f \in Feats, v \in NConstrs : SetNConstrs(f, v)
    \/ \E f \in Feats, s \in Feats : Copy(f, s)
    \/ \E f \in Feats, node \in NodesLife : Calculate(f, node)

Spec == Init /\ [][Next]_vars

(***************************************************************************)
(* SpecCalc: one vector from creation over the calculation for any node   *)
(* to its export.                                                          *)
(***************************************************************************)
NextCalc ==
    \/ \E size \in Sizes : Create("feat1", size)
    \/ \E v \in MaxDepthsCalc : SetMaxDepth("feat1", v)
    \/ \E node \in NodesCalc : Calculate("feat1", node)
    \/ \E label \in Labels : WriteSingle("feat1", label)
    \/ \E label \in Labels, negate \in BOOLEAN :
          WriteDiff("feat1", "feat1", label, negate)

SpecCalc == Init /\ [][NextCalc]_vars

(***************************************************************************)
(* SpecExport: the export calls on two computed vectors, each the result  *)
(* of SCIPfeatCreate, SCIPfeatSetMaxDepth and SCIPcalcNodeselFeat.         *)
(***************************************************************************)
Computed(size) ==
    {SCIPcalcNodeselFeat(SCIPfeatSetMaxDepth(SCIPfeatCreate(size), m), node) :
        m \in MaxDepths, node \in NodesExport}

\* both vectors are created with the one size of the caller's schema
InitExport ==
    /\ \E size \in Sizes : feat \in [Feats -> Computed(size)]
    /\ out = <<>>
    /\ call = NoCall
    /\ build \in Builds
    /\ crashed = FALSE
    /\ divzero = {}
    /\ overflow = FALSE

NextExport ==
    \/ \E f \in Feats, label \in Labels : WriteSingle(f, label)
    \/ \E a \in Feats : \E b \in Feats \ {a}, label \in Labels, negate \in BOOLEAN :
          WriteDiff(a, b, label, negate)

SpecExport == InitExport /\ [][NextExport]_vars

(***************************************************************************)
(* Properties of the export (SpecExport).                                  *)
(***************************************************************************)
\* the last call was SCIPfeatDiffLIBSVMPrint and it wrote its line
DiffEmitted == call.op = "diff" /\ ~crashed /\ out # <<>>

\* the two vectors of that call after the negate swap
VecA == IF call.negate THEN feat[call.f2] ELSE feat[call.f1]
VecB == IF call.negate THEN feat[call.f1] ELSE feat[call.f2]

IndexRange(ft) == (SCIPfeatGetOffset(ft) + 1) .. (SCIPfeatGetOffset(ft) + ft.size)

\* C1: a difference of two equal-size vectors (size >= 1) with different
\* offsets is written with strictly increasing indices over both blocks; a
\* value in A's index range is +A.vals[i], a value in B's range is
\* -B.vals[i], whichever block comes first.
C1_DiffSortedAndSigned ==
    (/\ DiffEmitted
     /\ VecA.size = VecB.size /\ VecA.size >= 1
     /\ SCIPfeatGetOffset(VecA) # SCIPfeatGetOffset(VecB))
    => LET pairs == out[1].pairs
           offA == SCIPfeatGetOffset(VecA)
           offB == SCIPfeatGetOffset(VecB)
       IN  /\ \A k \in 1 .. (Len(pairs) - 1) : pairs[k][1] < pairs[k + 1][1]
           /\ \A k \in 1 .. Len(pairs) :
                 /\ pairs[k][1] \in IndexRange(VecA)
                       => pairs[k][2] = FmtReal(VecA.vals[pairs[k][1] - offA])
                 /\ pairs[k][1] \in IndexRange(VecB)
                       => pairs[k][2] = FmtReal(FNeg(VecB.vals[pairs[k][1] - offB]))

\* a difference was written whose second vector has the smaller offset:
\* both blocks are on the line, -B's first
C1_Witness ==
    /\ DiffEmitted
    /\ SCIPfeatGetOffset(VecA) > SCIPfeatGetOffset(VecB)
    /\ Len(out[1].pairs) = 2 * VecA.size
    /\ out[1].pairs[1][1] = SCIPfeatGetOffset(VecB) + 1

\* C2: the line of WriteDiff(a, b, label, negate = TRUE) is the line of
\* WriteDiff(b, a, -label, negate = FALSE): label, indices and values.
C2_NegateIsSwap ==
    (DiffEmitted /\ call.negate)
    => out[1] = SCIPfeatDiffLIBSVMPrint(feat[call.f2], feat[call.f1],
                                        -call.label, FALSE, RealZero)

\* a negated difference of two vectors with different offsets was written
C2_Witness ==
    /\ DiffEmitted
    /\ call.negate
    /\ call.f1 # call.f2
    /\ SCIPfeatGetOffset(VecA) # SCIPfeatGetOffset(VecB)

\* the elementwise difference a - b as a vector with a's scalar fields
DiffVector(a, b) ==
    [a EXCEPT !.vals = [i \in 1 .. Len(a.vals) |-> FSub(a.vals[i], b.vals[i])]]

\* C3: with equal offsets and negate = FALSE the line of the difference is
\* the line SCIPfeatLIBSVMPrint writes for the elementwise difference with
\* the same label: size pairs, slot i at index i + offset + 1, in slot order.
C3_MergedIsSingleOfDifference ==
    (/\ DiffEmitted /\ ~call.negate
     /\ VecA.size = VecB.size
     /\ SCIPfeatGetOffset(VecA) = SCIPfeatGetOffset(VecB))
    => /\ out[1] = SCIPfeatLIBSVMPrint(DiffVector(VecA, VecB), call.label, RealZero)
       /\ Len(out[1].pairs) = VecA.size
       /\ \A k \in 1 .. Len(out[1].pairs) :
             out[1].pairs[k][1] = (k - 1) + SCIPfeatGetOffset(VecA) + 1

\* a difference of two vectors that differ in a value and share the offset
\* was written without negation
C3_Witness ==
    /\ DiffEmitted
    /\ ~call.negate
    /\ SCIPfeatGetOffset(VecA) = SCIPfeatGetOffset(VecB)
    /\ VecA.vals # VecB.vals

\* depth bucket with floor division
DepthBucket(ft) == ft.depth \div (ft.maxdepth \div 10)

\* C7: two vectors of the same size >= 1 and the same maxdepth >= 10 with
\* boundtype 0 or 1 have the offset size*2*bucket + size*boundtype; their
\* index ranges are disjoint when the (bucket, boundtype) pairs differ and
\* the same when the pairs are equal.
C7_OffsetsPartition ==
    \A a \in Feats, b \in Feats :
        (/\ feat[a].live /\ feat[b].live
         /\ feat[a].size = feat[b].size /\ feat[a].size >= 1
         /\ feat[a].maxdepth = feat[b].maxdepth /\ feat[a].maxdepth >= 10
         /\ feat[a].boundtype \in {0, 1} /\ feat[b].boundtype \in {0, 1})
        => /\ SCIPfeatGetOffset(feat[a]) =
                 feat[a].size * 2 * DepthBucket(feat[a])
                    + feat[a].size * feat[a].boundtype
           /\ IF <<DepthBucket(feat[a]), feat[a].boundtype>>
                    = <<DepthBucket(feat[b]), feat[b].boundtype>>
              THEN IndexRange(feat[a]) = IndexRange(feat[b])
              ELSE IndexRange(feat[a]) \cap IndexRange(feat[b]) = {}

\* a difference was written of two vectors with the same maxdepth >= 10 of
\* which one is in the next depth bucket with the lower bound type and the
\* other in the bucket before with the upper bound type
C7_Witness ==
    /\ DiffEmitted
    /\ VecA.maxdepth = VecB.maxdepth /\ VecA.maxdepth >= 10
    /\ DepthBucket(VecA) = DepthBucket(VecB) + 1
    /\ VecA.boundtype = 0 /\ VecB.boundtype = 1

(***************************************************************************)
(* Properties of the life cycle (Spec).                                    *)
(***************************************************************************)
\* w has the scalar fields of r and every value slot 0 .. r.size - 1 of r
DeepEqual(w, r) ==
    /\ w.maxdepth = r.maxdepth
    /\ w.depth = r.depth
    /\ w.size = r.size
    /\ w.boundtype = r.boundtype
    /\ w.rootlpobj = r.rootlpobj
    /\ w.sumobjcoeff = r.sumobjcoeff
    /\ w.nconstrs = r.nconstrs
    /\ \A i \in 1 .. r.size :
          /\ i <= Len(w.vals)
          /\ i <= Len(r.vals)
          /\ w.vals[i] = r.vals[i]

\* a setter or the calculation changes vector f
Mutates(f) ==
    \/ \E v \in RootlpObjs : SetRootlpObj(f, v)
    \/ \E v \in SumObjCoeffs : SetSumObjCoeff(f, v)
    \/ \E v \in MaxDepthsLife : SetMaxDepth(f, v)
    \/ \E v \in NConstrs : SetNConstrs(f, v)
    \/ \E node \in NodesLife : Calculate(f, node)

\* C4: after SCIPfeatCopy(f, s) the written vector s equals the vector f
\* read from in every scalar field and every value slot, and a later setter
\* or calculation on f leaves s unchanged.
C4_CopyIsDeepAndIndependent ==
    [][/\ \A f \in Feats, s \in Feats :
             (Copy(f, s) /\ ~crashed') => DeepEqual(feat'[s], feat'[f])
       /\ \A f \in Feats : \A s \in Feats \ {f} :
             Mutates(f) => feat'[s] = feat[s]]_vars

\* C5: the size field of every live vector is the length of its values
\* array, which is allocated with the size given to SCIPfeatCreate and never
\* reallocated.
C5_SizeIsAllocatedLength ==
    \A f \in Feats : feat[f].live => feat[f].size = Len(feat[f].vals)

(***************************************************************************)
(* Properties of the calculation and of the export after it (SpecCalc).    *)
(***************************************************************************)
Indicator(cond) == IF cond THEN RealOne ELSE RealZero

\* C6: after every SCIPcalcNodeselFeat the slot of the node's type among
\* sibling, child, leaf is 1 and the other two are 0; for any other node
\* type all three are 0.
C6_TypeIndicatorsExclusive ==
    [][\A node \in NodesCalc :
          Calculate("feat1", node)
          => LET v == feat'["feat1"].vals
             IN  /\ v[SCIP_FEATNODESEL_TYPE_SIBLING + 1] = Indicator(node.type = "SIBLING")
                 /\ v[SCIP_FEATNODESEL_TYPE_CHILD + 1] = Indicator(node.type = "CHILD")
                 /\ v[SCIP_FEATNODESEL_TYPE_LEAF + 1] = Indicator(node.type = "LEAF")]_vars

\* C8: the objective ratio slot is the objective coefficient divided by
\* max(column nonzero count, 0.1): by 0.1 for count 0, by n for count n >= 1,
\* never by zero.
C8_ObjRatioDivisorGuarded ==
    [][\A node \in NodesCalc :
          Calculate("feat1", node)
          => /\ "objconstr" \notin divzero'
             /\ feat'["feat1"].vals[SCIP_FEATNODESEL_BRANCHVAR_OBJCONSTR + 1] =
                   FDiv(node.varobj,
                        IF node.varcolnnonz = 0 THEN OneTenth
                        ELSE IntToReal(node.varcolnnonz))]_vars

\* C9: no call of SCIPcalcNodeselFeat that passes its asserts divides by
\* zero when it computes the pseudocost slot, also for objective
\* coefficient 0.
C9_PseudocostNoDivisionByZero == "pseudocost" \notin divzero

\* C10: no export call that passes the asserts (after a calculation with
\* maxdepth # 0) divides by zero in the offset.
C10_OffsetNoDivisionByZero == call.op # "none" => "offset" \notin divzero

====
